---------------------------- MODULE Spec2Model ----------------------------
(***************************************************************************)
(* A model of cmascis/stock_analysis: the import_reports management        *)
(* command (stocks/management/commands/import_reports.py), the model       *)
(* fields and unique constraints of stocks/models.py and the analytics     *)
(* queries of HomeView (stocks/views.py).                                  *)
(*                                                                         *)
(* Text is modelled by TLA+ strings read character by character, JSON      *)
(* values by tagged records, decimals by integers in units of 10^-6,       *)
(* instants by minutes since 1970-01-01 00:00 in the configured zone.      *)
(***************************************************************************)
EXTENDS Integers, Sequences, FiniteSets, TLC

(***************************************************************************)
(* Characters and strings                                                  *)
(***************************************************************************)
\* the character of s at i, "" beyond its ends
Ch(s, i) == IF i \in 1..Len(s) THEN SubSeq(s, i, i) ELSE ""

Whitespace == {" ", "\t", "\n"}

IsSpace(c) == c \in Whitespace

Digits == "0123456789"

IsDigit(c) == \E i \in 1..Len(Digits) : Ch(Digits, i) = c

DigitVal(c) == (CHOOSE i \in 1..Len(Digits) : Ch(Digits, i) = c) - 1

LowerLetters == "abcdefghijklmnopqrstuvwxyz"

UpperLetters == "ABCDEFGHIJKLMNOPQRSTUVWXYZ"

LetterIndex(c) == CHOOSE j \in 1..Len(LowerLetters) : Ch(LowerLetters, j) = c

\* str.upper() on one character
UpperCh(c) ==
    IF \E i \in 1..Len(LowerLetters) : Ch(LowerLetters, i) = c
    THEN Ch(UpperLetters, LetterIndex(c))
    ELSE c

RECURSIVE StrUpper(_)
StrUpper(s) == IF s = "" THEN "" ELSE UpperCh(Head(s)) \o StrUpper(Tail(s))

RECURSIVE LStrip(_)
LStrip(s) == IF s # "" /\ IsSpace(Head(s)) THEN LStrip(Tail(s)) ELSE s

RECURSIVE RStrip(_)
RStrip(s) ==
    IF s # "" /\ IsSpace(Ch(s, Len(s))) THEN RStrip(SubSeq(s, 1, Len(s) - 1)) ELSE s

\* str.strip()
Strip(s) == RStrip(LStrip(s))

\* the first whitespace-free run of s and what follows it (s starts non-blank)
RECURSIVE TokenEnd(_, _)
TokenEnd(s, i) == IF i <= Len(s) /\ ~IsSpace(Ch(s, i)) THEN TokenEnd(s, i + 1) ELSE i

\* the first token of t, which starts with no whitespace, then the others
RECURSIVE SplitStripped(_)
Split(s) == SplitStripped(LStrip(s))

CutAt(t, e) == <<SubSeq(t, 1, e - 1)>> \o Split(SubSeq(t, e, Len(t)))

\* str.split() with no argument: the runs of non-whitespace characters
SplitStripped(t) == IF t = "" THEN << >> ELSE CutAt(t, TokenEnd(t, 1))

\* re.sub(r"\s+", "_", s)
RECURSIVE CollapseWs(_)
CollapseWs(s) ==
    IF s = "" THEN ""
    ELSE IF IsSpace(Head(s)) THEN "_" \o CollapseWs(LStrip(s))
    ELSE Head(s) \o CollapseWs(Tail(s))

RECURSIVE AllDigits(_)
AllDigits(s) == s = "" \/ (IsDigit(Head(s)) /\ AllDigits(Tail(s)))

\* int() of a string of digits
RECURSIVE DigitsVal(_)
DigitsVal(s) ==
    IF s = "" THEN 0 ELSE 10 * DigitsVal(SubSeq(s, 1, Len(s) - 1)) + DigitVal(Ch(s, Len(s)))

\* the order of characters in a byte-wise collation
Collation == "\t\n 0123456789ABCDEFGHIJKLMNOPQRSTUVWXYZ_abcdefghijklmnopqrstuvwxyz"

CharOrd(c) ==
    IF \E i \in 1..Len(Collation) : Ch(Collation, i) = c
    THEN CHOOSE i \in 1..Len(Collation) : Ch(Collation, i) = c
    ELSE 0

\* a < b in the order ORDER BY gives a text column
RECURSIVE StrLess(_, _)
StrLess(a, b) ==
    IF b = "" THEN FALSE
    ELSE IF a = "" THEN TRUE
    ELSE IF Head(a) = Head(b) THEN StrLess(Tail(a), Tail(b))
    ELSE CharOrd(Head(a)) < CharOrd(Head(b))

(***************************************************************************)
(* JSON values as json.loads returns them, and Python's None               *)
(***************************************************************************)
None == [t |-> "null"]

JStr(s) == [t |-> "str", s |-> s]

\* a JSON number, kept as the text str() gives it
JNum(s) == [t |-> "num", s |-> s]

JList(l) == [t |-> "list", l |-> l]

\* an exact decimal: n units of 10^-6
Dec(n) == [t |-> "dec", v |-> n]

\* the items of a JSON object, in document order
ItemKeys(item) == {item[i][1] : i \in 1..Len(item)}

\* dict.get(key, default)
ItemGet(item, key, default) ==
    IF key \in ItemKeys(item)
    THEN item[CHOOSE i \in 1..Len(item) : item[i][1] = key][2]
    ELSE default


\* Python truth value of a loaded value: None, "", 0 and [] are false
RECURSIVE AllZeroOrDot(_)
AllZeroOrDot(s) == s = "" \/ (Head(s) \in {"0", ".", "-"} /\ AllZeroOrDot(Tail(s)))

Falsy(v) ==
    \/ v.t = "null"
    \/ v.t = "str" /\ v.s = ""
    \/ v.t = "num" /\ AllZeroOrDot(v.s)
    \/ v.t = "list" /\ v.l = << >>

\* Python's `v or default`
PyOr(v, default) == IF Falsy(v) THEN default ELSE v

\* the text a CharField/TextField stores for a loaded value
TextOf(v) == IF v.t \in {"str", "num"} THEN v.s ELSE ""

(***************************************************************************)
(* Exact decimals: Decimal(str(v))                                         *)
(***************************************************************************)
DECIMAL_PLACES == 6

RECURSIVE Pow10(_)
Pow10(n) == IF n = 0 THEN 1 ELSE 10 * Pow10(n - 1)

DotAt(s) == IF \E i \in 1..Len(s) : Ch(s, i) = "."
            THEN CHOOSE i \in 1..Len(s) : Ch(s, i) = "."
            ELSE Len(s) + 1

\* the first n characters of s, all of s when it is shorter
Prefix(s, n) == SubSeq(s, 1, IF Len(s) < n THEN Len(s) ELSE n)

\* the number of 10^-6 units of the digits ip "." fp
Magnitude(ip, fp) ==
    DigitsVal(ip) * Pow10(DECIMAL_PLACES) + DigitsVal(fp) * Pow10(DECIMAL_PLACES - Len(fp))

\* [ok |-> FALSE] stands for decimal.InvalidOperation
DecimalOf(neg, ip, fp) ==
    IF AllDigits(ip) /\ AllDigits(fp) /\ Len(ip) + Len(fp) > 0
    THEN [ok |-> TRUE,
          v  |-> Dec((IF neg THEN 0 - 1 ELSE 1) * Magnitude(ip, Prefix(fp, DECIMAL_PLACES)))]
    ELSE [ok |-> FALSE, v |-> None]

DecimalAt(neg, body, d) ==
    DecimalOf(neg, SubSeq(body, 1, d - 1), SubSeq(body, d + 1, Len(body)))

ParseStripped(t) ==
    IF t # "" /\ Head(t) \in {"-", "+"}
    THEN DecimalAt(Head(t) = "-", Tail(t), DotAt(Tail(t)))
    ELSE DecimalAt(FALSE, t, DotAt(t))

\* what Decimal(text) does: optional blanks, a sign, digits with at most one
\* point
ParseDecimal(text) == ParseStripped(Strip(text))

\* to_decimal(v): None for "" and None, else Decimal(str(v)), which raises on
\* text that is no number
to_decimal(v) ==
    IF v = None \/ v = JStr("") THEN [ok |-> TRUE, v |-> None]
    ELSE IF v.t \in {"str", "num"} THEN ParseDecimal(v.s)
    ELSE [ok |-> FALSE, v |-> None]

(***************************************************************************)
(* EPS keys                                                                *)
(***************************************************************************)
\* `$` of a Python pattern also matches before one final newline
DropFinalNewline(key) ==
    IF key # "" /\ Ch(key, Len(key)) = "\n" THEN SubSeq(key, 1, Len(key) - 1) ELSE key

\* ^20\d{2}E_EPS$
MatchesYearE(key) ==
    LET k == DropFinalNewline(key)
    IN  Len(k) = 9 /\ SubSeq(k, 1, 2) = "20" /\ AllDigits(SubSeq(k, 3, 4))
          /\ SubSeq(k, 5, 9) = "E_EPS"

\* ^20\d{2}_EPS$
MatchesYear(key) ==
    LET k == DropFinalNewline(key)
    IN  Len(k) = 8 /\ SubSeq(k, 1, 2) = "20" /\ AllDigits(SubSeq(k, 3, 4))
          /\ SubSeq(k, 5, 8) = "_EPS"

\* ^\d{3}_EPS$
MatchesCode(key) ==
    LET k == DropFinalNewline(key)
    IN  Len(k) = 7 /\ AllDigits(SubSeq(k, 1, 3)) /\ SubSeq(k, 4, 7) = "_EPS"

EPS_CODE_BASE == 1700

NoYear == 0 - 1

\* extract_eps_year(key): the year, or NoYear for None
extract_eps_year(key) ==
    IF MatchesYearE(key) \/ MatchesYear(key) THEN DigitsVal(SubSeq(key, 1, 4))
    ELSE IF MatchesCode(key) THEN DigitsVal(SubSeq(key, 1, 3)) + EPS_CODE_BASE
    ELSE NoYear

\* eps_priority(key): higher is better
eps_priority(key) ==
    IF MatchesYearE(key) THEN 3
    ELSE IF MatchesYear(key) THEN 2
    ELSE IF MatchesCode(key) THEN 1
    ELSE 0

\* eps_by_year[year] = eps_val; eps_source_pri[year] = pri
EpsAssign(acc, year, pri, d) ==
    IF ~d.ok THEN [acc EXCEPT !.ok = FALSE]
    ELSE IF d.v = None THEN acc
    ELSE [by_year |-> [y \in DOMAIN acc.by_year \cup {year} |->
                         IF y = year THEN d.v ELSE acc.by_year[y]],
          pri     |-> [y \in DOMAIN acc.pri \cup {year} |->
                         IF y = year THEN pri ELSE acc.pri[y]],
          ok      |-> TRUE]

\* the resolver without the comparison of priorities: the last key wins
EpsKeyedLastWins(acc, year, pri, v) ==
    IF ~acc.ok \/ year = NoYear \/ v = JStr("") \/ v = None THEN acc
    ELSE EpsAssign(acc, year, pri, to_decimal(v))

EpsKeyed(acc, year, pri, v) ==
    IF ~acc.ok \/ year = NoYear \/ v = JStr("") \/ v = None THEN acc
    ELSE IF (year \notin DOMAIN acc.by_year) \/ (pri > acc.pri[year])
    THEN EpsAssign(acc, year, pri, to_decimal(v))
    ELSE acc

\* One turn of the loop over item.items(): acc is [by_year, pri, ok], by_year
\* and pri the dicts eps_by_year and eps_source_pri, ok false once to_decimal
\* has raised.
EpsStep(acc, k, v) == EpsKeyed(acc, extract_eps_year(k), eps_priority(k), v)

RECURSIVE EpsLoop(_, _, _)
EpsLoop(item, i, acc) ==
    IF i > Len(item) THEN acc
    ELSE EpsLoop(item, i + 1, EpsStep(acc, item[i][1], item[i][2]))

MinKey(d) == CHOOSE m \in DOMAIN d : \A o \in DOMAIN d : m <= o

\* sorted(d.items()): the pairs in ascending order of the year
RECURSIVE SortedItems(_)
SortedFrom(d, y) == <<<<y, d[y]>>>> \o SortedItems([o \in DOMAIN d \ {y} |-> d[o]])

SortedItems(d) == IF DOMAIN d = {} THEN << >> ELSE SortedFrom(d, MinKey(d))

EpsResult(acc) == [ok |-> acc.ok, rows |-> IF acc.ok THEN SortedItems(acc.by_year) ELSE << >>]

\* eps_rows of a record: [ok, rows]; ok false when to_decimal raised
EpsRows(item) ==
    EpsResult(EpsLoop(item, 1, [by_year |-> << >>, pri |-> << >>, ok |-> TRUE]))

(***************************************************************************)
(* Ticker and timestamp                                                    *)
(***************************************************************************)
TickerParts(parts) ==
    IF Len(parts) < 2 THEN [ok |-> FALSE, ticker |-> "", region |-> ""]
    ELSE [ok |-> TRUE, ticker |-> parts[1], region |-> parts[2]]

\* parse_ticker_region(s): ok false stands for the exception it raises
parse_ticker_region(s) ==
    IF ~Falsy(s) /\ s.t # "str" THEN [ok |-> FALSE, ticker |-> "", region |-> ""]
    ELSE TickerParts(Split(TextOf(PyOr(s, JStr("")))))

IsLeap(y) == (y % 4 = 0 /\ y % 100 # 0) \/ y % 400 = 0

DaysInMonth(y, m) ==
    IF m = 2 THEN (IF IsLeap(y) THEN 29 ELSE 28)
    ELSE IF m \in {4, 6, 9, 11} THEN 30 ELSE 31

\* days from 1970-01-01 to the civil date y-m-d
DaysFromCivil(y, m, d) ==
    LET yy  == IF m <= 2 THEN y - 1 ELSE y
        era == yy \div 400
        yoe == yy - era * 400
        mp  == IF m > 2 THEN m - 3 ELSE m + 9
        doy == (153 * mp + 2) \div 5 + d - 1
        doe == yoe * 365 + yoe \div 4 - yoe \div 100 + doy
    IN  era * 146097 + doe - 719468

MINUTES_PER_DAY == 24 * 60

\* the end of the run of at most `most` digits of s that starts at i
RECURSIVE DigitsEnd(_, _, _)
DigitsEnd(s, i, most) ==
    IF most > 0 /\ i <= Len(s) /\ IsDigit(Ch(s, i)) THEN DigitsEnd(s, i + 1, most - 1) ELSE i

\* "%Y-%m-%d_%H-%M": the most digits of each field and what follows it
TS_FORMAT == << <<4, "-">>, <<2, "-">>, <<2, "_">>, <<2, "-">>, <<2, "">> >>

ScanCons(v, rest) ==
    IF rest.ok THEN [ok |-> TRUE, vals |-> <<v>> \o rest.vals] ELSE rest

\* the numbers of the fields of fmt read from s at i: [ok, vals]
RECURSIVE ScanFields(_, _, _)
ScanField(s, i, e, fmt) ==
    IF /\ e > i
       /\ (fmt[1][1] = 4 => e - i = 4)
       /\ (IF fmt[1][2] = "" THEN e = Len(s) + 1 ELSE Ch(s, e) = fmt[1][2])
    THEN ScanCons(DigitsVal(SubSeq(s, i, e - 1)), ScanFields(s, e + 1, Tail(fmt)))
    ELSE [ok |-> FALSE, vals |-> << >>]

ScanFields(s, i, fmt) ==
    IF fmt = << >> THEN [ok |-> TRUE, vals |-> << >>]
    ELSE ScanField(s, i, DigitsEnd(s, i, fmt[1][1]), fmt)

\* datetime(y, m, d, h, n) made aware in the current zone, in minutes; ok
\* false for the ValueError of a date that does not exist
CivilMinutes(y, m, d, h, n) ==
    IF y >= 1 /\ m \in 1..12 /\ d >= 1 /\ d <= DaysInMonth(y, m) /\ h \in 0..23 /\ n \in 0..59
    THEN [ok |-> TRUE, t |-> (DaysFromCivil(y, m, d) * 24 + h) * 60 + n]
    ELSE [ok |-> FALSE, t |-> 0]

StrpScanned(f) ==
    IF f.ok THEN CivilMinutes(f.vals[1], f.vals[2], f.vals[3], f.vals[4], f.vals[5])
    ELSE [ok |-> FALSE, t |-> 0]

\* datetime.strptime(ts, TS_FORMAT) and make_aware: [ok, t], ok false for the
\* ValueError of a text that does not match
StrpTime(ts) == StrpScanned(ScanFields(ts, 1, TS_FORMAT))

\* parse_timestamp(ts) at the instant now: the clock when ts is empty or absent
parse_timestamp(ts, now) ==
    IF Falsy(ts) THEN [ok |-> TRUE, t |-> now]
    ELSE IF ts.t # "str" THEN [ok |-> FALSE, t |-> 0]
    ELSE StrpTime(ts.s)

(***************************************************************************)
(* Field normalisation (stocks/models.py)                                  *)
(***************************************************************************)
\* UppercaseCharField.normalize
UppercaseNormalize(value) == IF value = "" THEN value ELSE StrUpper(Strip(value))

\* NormalizedRatingField.normalize
RatingNormalize(value) ==
    IF value = "" THEN value ELSE CollapseWs(StrUpper(Strip(value)))

(***************************************************************************)
(* The store: the four tables of stocks/models.py                          *)
(***************************************************************************)
EmptyDb == [Stock |-> {}, DailyReport |-> {}, ReportKeyTakeaway |-> {}, EPSForecast |-> {}]

\* the next value of a table's AutoField
NextId(rows) ==
    IF rows = {} THEN 1 ELSE 1 + (CHOOSE i \in {r.id : r \in rows} : \A r \in rows : r.id <= i)

\* the lookup on the values as given, not passed through get_prep_value
StockLookupRaw(stocks, ticker, region) ==
    {s \in stocks : s.ticker = ticker /\ s.region = region}

\* Stock.objects.filter(ticker=, region=): lookups pass through get_prep_value
StockLookup(stocks, ticker, region) ==
    {s \in stocks : s.ticker = UppercaseNormalize(ticker)
                      /\ s.region = UppercaseNormalize(region)}

\* the row Stock.objects.create(ticker=, region=, **defaults) saves (pre_save
\* normalises the three UppercaseCharFields)
StockRow(id, ticker, region, defaults) ==
    [id            |-> id,
     ticker        |-> UppercaseNormalize(ticker),
     region        |-> UppercaseNormalize(region),
     company_name  |-> defaults.company_name,
     currency_code |-> UppercaseNormalize(defaults.currency_code)]

\* DailyReport.objects.filter(stock=, as_of_timestamp=)
ReportLookup(reports, stock, as_of_ts) ==
    {r \in reports : r.stock = stock.id /\ r.as_of_timestamp = as_of_ts}

\* the row DailyReport.objects.create(stock=, as_of_timestamp=, **defaults)
\* saves at the instant now (created_at is auto_now_add, rating is normalised)
ReportRow(id, stock, as_of_ts, defaults, now) ==
    [id                  |-> id,
     stock               |-> stock.id,
     as_of_timestamp     |-> as_of_ts,
     created_at          |-> now,
     link                |-> defaults.link,
     blurb               |-> defaults.blurb,
     rating              |-> RatingNormalize(defaults.rating),
     analyst_team        |-> defaults.analyst_team,
     report_subtitle     |-> defaults.report_subtitle,
     raw_text            |-> defaults.raw_text,
     price               |-> defaults.price,
     price_objective     |-> defaults.price_objective,
     upside              |-> defaults.upside,
     average_daily_value |-> defaults.average_daily_value,
     market_cap          |-> defaults.market_cap]

Found(rows, found) == [rows |-> rows, obj |-> CHOOSE o \in found : TRUE, created |-> FALSE]

Created(rows, row) == [rows |-> rows \cup {row}, obj |-> row, created |-> TRUE]

StockGetOr(stocks, found, ticker, region, defaults) ==
    IF found # {} THEN Found(stocks, found)
    ELSE Created(stocks, StockRow(NextId(stocks), ticker, region, defaults))

\* Stock.objects.get_or_create(ticker=, region=, defaults=) with no other
\* writer: [rows, obj, created]
StockGetOrCreate(stocks, ticker, region, defaults) ==
    StockGetOr(stocks, StockLookup(stocks, ticker, region), ticker, region, defaults)

\* update_or_create in place of get_or_create: an existing row takes the
\* record's values
ReportUpdateOr(reports, found, stock, as_of_ts, defaults, now) ==
    IF found # {}
    THEN Created(reports \ found,
                 ReportRow((CHOOSE o \in found : TRUE).id, stock, as_of_ts, defaults, now))
    ELSE Created(reports, ReportRow(NextId(reports), stock, as_of_ts, defaults, now))

ReportGetOr(reports, found, stock, as_of_ts, defaults, now) ==
    IF found # {} THEN Found(reports, found)
    ELSE Created(reports, ReportRow(NextId(reports), stock, as_of_ts, defaults, now))

\* DailyReport.objects.get_or_create(stock=, as_of_timestamp=, defaults=) with
\* no other writer: [rows, obj, created]
ReportGetOrCreate(reports, stock, as_of_ts, defaults, now) ==
    ReportGetOr(reports, ReportLookup(reports, stock, as_of_ts), stock, as_of_ts,
                defaults, now)

\* [ReportKeyTakeaway(report=report, order=i, text=text)
\*    for i, text in enumerate(key_takeaways) if text]
TakeawayRows(report, key_takeaways) ==
    {[report |-> report.id, order |-> i - 1, text |-> TextOf(key_takeaways[i])] :
        i \in {j \in 1..Len(key_takeaways) : ~Falsy(key_takeaways[j])}}

\* [EPSForecast(report=report, year=year, eps=eps) for (year, eps) in eps_rows]
EpsForecastRows(report, eps_rows) ==
    {[report |-> report.id, year |-> eps_rows[i][1], eps |-> eps_rows[i][2]] :
        i \in 1..Len(eps_rows)}

(***************************************************************************)
(* One record of a document: lines 100-189 of import_reports.py            *)
(***************************************************************************)
\* item.get(key, "") or ""
TextField(item, key) == TextOf(PyOr(ItemGet(item, key, JStr("")), JStr("")))

DefaultsOf(item, price, po, up, adv, cap) ==
    [ok     |-> price.ok /\ po.ok /\ up.ok /\ adv.ok /\ cap.ok,
     fields |->
       [link                |-> TextField(item, "Link"),
        blurb               |-> TextField(item, "Blurb"),
        rating              |-> TextField(item, "Rating"),
        analyst_team        |-> TextField(item, "Analyst_Team"),
        report_subtitle     |-> TextField(item, "Report_Subtitle"),
        raw_text            |-> PyOr(ItemGet(item, "Raw_Text", JList(<< >>)), JList(<< >>)).l,
        price               |-> price.v,
        price_objective     |-> po.v,
        upside              |-> up.v,
        average_daily_value |-> adv.v,
        market_cap          |-> cap.v]]

\* report_defaults: [ok, fields]; ok false when one of the five to_decimal
\* calls raised
ReportDefaults(item) ==
    DefaultsOf(item,
               to_decimal(ItemGet(item, "Price", None)),
               to_decimal(ItemGet(item, "Price_Objective", None)),
               to_decimal(ItemGet(item, "Upside", None)),
               to_decimal(ItemGet(item, "Average_Daily_Value", None)),
               to_decimal(ItemGet(item, "Market_Cap", None)))

\* key_takeaways = item.get("Key_Takeaways", []) or []
KeyTakeaways(item) == PyOr(ItemGet(item, "Key_Takeaways", JList(<< >>)), JList(<< >>)).l

StockDefaults(item) ==
    [company_name  |-> TextField(item, "Company"),
     currency_code |-> TextOf(PyOr(ItemGet(item, "Currency", JStr("USD")), JStr("USD")))]

\* lines 169-189: the children of a created report, nothing for one that existed
WriteChildren(store, s, r, key_takeaways, eps_rows) ==
    IF r.created
    THEN [db |-> [Stock             |-> s.rows,
                  DailyReport       |-> r.rows,
                  ReportKeyTakeaway |-> store.ReportKeyTakeaway
                                          \cup TakeawayRows(r.obj, key_takeaways),
                  EPSForecast       |-> store.EPSForecast
                                          \cup EpsForecastRows(r.obj, eps_rows)],
          created |-> TRUE]
    ELSE [db |-> [store EXCEPT !.Stock = s.rows], created |-> FALSE]

WriteReport(store, s, as_of_ts, defaults, key_takeaways, eps_rows, now) ==
    WriteChildren(store, s,
                  ReportGetOrCreate(store.DailyReport, s.obj, as_of_ts, defaults, now),
                  key_takeaways, eps_rows)

\* the `with transaction.atomic()` block with no other writer: the store after
\* it and whether the report was created
WriteRecord(store, ticker, region, as_of_ts, item, defaults, eps_rows, now) ==
    WriteReport(store,
                StockGetOrCreate(store.Stock, ticker, region, StockDefaults(item)),
                as_of_ts, defaults, KeyTakeaways(item), eps_rows, now)

Written(w) == [kind |-> IF w.created THEN "created" ELSE "skipped", db |-> w.db]

\* the loop body without the `if dry_run: continue` of lines 149-150
ParsedDryWrites(store, item, dry, now, tr, ts, rd, eps) ==
    IF ~tr.ok \/ ~ts.ok THEN [kind |-> "bad", db |-> store]
    ELSE IF ~rd.ok \/ ~eps.ok THEN [kind |-> "raise", db |-> store]
    ELSE Written(WriteRecord(store, tr.ticker, tr.region, ts.t, item, rd.fields,
                             eps.rows, now))

Parsed(store, item, dry, now, tr, ts, rd, eps) ==
    IF ~tr.ok \/ ~ts.ok THEN [kind |-> "bad", db |-> store]
    ELSE IF ~rd.ok \/ ~eps.ok THEN [kind |-> "raise", db |-> store]
    ELSE IF dry THEN [kind |-> "dry", db |-> store]
    ELSE Written(WriteRecord(store, tr.ticker, tr.region, ts.t, item, rd.fields,
                             eps.rows, now))

\* The body of `for item in data` at the instant now:
\*   "bad"     the ticker or the timestamp did not parse: logged, next record
\*   "raise"   an exception left the loop (to_decimal on text that is no number)
\*   "dry"     dry run: nothing written
\*   "created" / "skipped"  the report was created / existed already
RecordOutcome(store, item, dry, now) ==
    Parsed(store, item, dry, now,
           parse_ticker_region(ItemGet(item, "Ticker", JStr(""))),
           parse_timestamp(ItemGet(item, "Timestamp", None), now),
           ReportDefaults(item),
           EpsRows(item))

(***************************************************************************)
(* The analytics queries of HomeView (stocks/views.py)                     *)
(***************************************************************************)
TOP_N_UPSIDE == 10

TOP_N_MOST_REPORTED == 10

CHART_STOCKS_COUNT == 5

CHART_MAX_POINTS == 60

RECENT_DOWNGRADES == 5

\* now - timedelta(days=n)
DaysBefore(now, n) == now - n * MINUTES_PER_DAY

\* The results ORDER BY ... LIMIT can give for the rows: every sequence of
\* min(limit, |rows|) rows in which no row comes after one that `before` puts
\* behind it. Rows that `before` leaves unordered (ties) come in any order.
RECURSIVE Orders(_, _, _)
Orders(rows, before, limit) ==
    IF rows = {} \/ limit = 0 THEN {<< >>}
    ELSE UNION {{<<m>> \o q : q \in Orders(rows \ {m}, before, limit - 1)} :
                  m \in {x \in rows : \A y \in rows : <<y, x>> \notin before}}

\* Max("reports__upside", filter=Q(reports__as_of_timestamp__gte=start,
\*                                 reports__upside__isnull=False))
UpsidesSince(store, stock, start) ==
    {r.upside.v : r \in {x \in store.DailyReport :
                           /\ x.stock = stock.id
                           /\ x.as_of_timestamp >= start
                           /\ x.upside # None}}

MaxOf(S) == CHOOSE m \in S : \A o \in S : o <= m

\* the annotated stocks left by .filter(max_upside__isnull=False)
TopUpsideRows(store, start) ==
    {[stock |-> st, max_upside |-> Dec(MaxOf(UpsidesSince(store, st, start)))] :
        st \in {x \in store.Stock : UpsidesSince(store, x, start) # {}}}

\* order_by("-max_upside")
UpsideBefore(rows) == {p \in rows \X rows : p[1].max_upside.v > p[2].max_upside.v}

\* lines 43-64: the top-upside ranking since start
TopUpside(store, start, limit) ==
    Orders(TopUpsideRows(store, start), UpsideBefore(TopUpsideRows(store, start)), limit)

\* Count("reports", filter=Q(reports__as_of_timestamp__gte=start))
ReportCount(store, stock, start) ==
    Cardinality({r \in store.DailyReport :
                   r.stock = stock.id /\ r.as_of_timestamp >= start})

\* the annotated stocks left by .filter(report_count__gt=0)
MostReportedRows(store, start) ==
    {[stock |-> st, report_count |-> ReportCount(store, st, start)] :
        st \in {x \in store.Stock : ReportCount(store, x, start) > 0}}

\* order_by("-report_count", "ticker")
CoverageBefore(rows) ==
    {p \in rows \X rows :
        \/ p[1].report_count > p[2].report_count
        \/ /\ p[1].report_count = p[2].report_count
           /\ StrLess(p[1].stock.ticker, p[2].stock.ticker)}

\* lines 69-89: the most-reported ranking since start
MostReported(store, start, limit) ==
    Orders(MostReportedRows(store, start), CoverageBefore(MostReportedRows(store, start)),
           limit)

\* the reports prev_rating_sq filters for the outer report r
PriorReports(store, r) ==
    {p \in store.DailyReport : p.stock = r.stock /\ p.as_of_timestamp < r.as_of_timestamp}

Latest(reports) ==
    CHOOSE p \in reports : \A o \in reports : o.as_of_timestamp <= p.as_of_timestamp

\* the subquery ordered by "as_of_timestamp" instead of "-as_of_timestamp"
PrevRatingOldest(store, r) ==
    IF PriorReports(store, r) = {} THEN ""
    ELSE (CHOOSE p \in PriorReports(store, r) :
            \A o \in PriorReports(store, r) : p.as_of_timestamp <= o.as_of_timestamp).rating

\* Coalesce(Subquery(prev_rating_sq), Value(""))
PrevRating(store, r) ==
    IF PriorReports(store, r) = {} THEN "" ELSE Latest(PriorReports(store, r)).rating

\* the annotated reports left by .filter(rating="UNDERPERFORM",
\*                                       prev_rating__in=["BUY", "NEUTRAL"])
DowngradeRows(store) ==
    {[report |-> r, prev_rating |-> PrevRating(store, r)] :
        r \in {x \in store.DailyReport :
                 /\ x.rating = RatingNormalize("UNDERPERFORM")
                 /\ PrevRating(store, x) \in {"BUY", "NEUTRAL"}}}

\* order_by("-as_of_timestamp")
LaterFirst(rows) ==
    {p \in rows \X rows : p[1].report.as_of_timestamp > p[2].report.as_of_timestamp}

\* lines 101-120: the most recent downgrade events
RecentDowngrades(store, limit) ==
    Orders(DowngradeRows(store), LaterFirst(DowngradeRows(store)), limit)

\* n in decimal, zero-padded to two digits
TwoDigits(n) == Ch(Digits, ((n \div 10) % 10) + 1) \o Ch(Digits, (n % 10) + 1)

FourDigits(n) == TwoDigits(n \div 100) \o TwoDigits(n % 100)

\* the civil date of the day z days after 0000-03-01
CivilYmd(yoe, era, doy, mp) ==
    [y |-> yoe + era * 400 + (IF mp < 10 THEN 0 ELSE 1),
     m |-> IF mp < 10 THEN mp + 3 ELSE mp - 9,
     d |-> doy - (153 * mp + 2) \div 5 + 1]

CivilDoy(yoe, era, doy) == CivilYmd(yoe, era, doy, (5 * doy + 2) \div 153)

CivilYoe(era, doe, yoe) ==
    CivilDoy(yoe, era, doe - (365 * yoe + yoe \div 4 - yoe \div 100))

CivilDoe(era, doe) ==
    CivilYoe(era, doe,
             (doe - doe \div 1460 + doe \div 36524 - doe \div 146096) \div 365)

CivilEra(z, era) == CivilDoe(era, z - era * 146097)

\* the civil date of the day `days` after 1970-01-01
CivilFromDays(days) == CivilEra(days + 719468, (days + 719468) \div 146097)

IsoDate(c) == FourDigits(c.y) \o "-" \o TwoDigits(c.m) \o "-" \o TwoDigits(c.d)

\* datetime.isoformat() of an aware instant of whole minutes
IsoFormat(t) ==
    IsoDate(CivilFromDays(t \div MINUTES_PER_DAY)) \o "T"
        \o TwoDigits((t % MINUTES_PER_DAY) \div 60) \o ":" \o TwoDigits(t % 60)
        \o ":00+00:00"

\* float(value) if value is not None else None; a float holds the number of
\* a DecimalField of this size, written here in units of 10^-6
FloatOrNone(d) == IF d = None THEN None ELSE [t |-> "float", v |-> d.v]

\* one element of a series
Point(r) ==
    [t     |-> IsoFormat(r.as_of_timestamp),
     price |-> FloatOrNone(r.price),
     po    |-> FloatOrNone(r.price_objective)]

\* the rows of qs for one stock
SeriesReports(store, sid, start_dt) ==
    {r \in store.DailyReport :
        /\ r.stock = sid
        /\ r.as_of_timestamp >= start_dt
        /\ ~(r.price = None /\ r.price_objective = None)}

Earliest(reports) ==
    CHOOSE p \in reports : \A o \in reports : p.as_of_timestamp <= o.as_of_timestamp

\* the points of the reports, order_by("as_of_timestamp")
RECURSIVE PointsOf(_)
PointsFrom(reports, first) == <<Point(first)>> \o PointsOf(reports \ {first})

PointsOf(reports) == IF reports = {} THEN << >> ELSE PointsFrom(reports, Earliest(reports))

\* if len(points) > CHART_MAX_POINTS: points[-CHART_MAX_POINTS:]
CapPoints(points) ==
    IF Len(points) > CHART_MAX_POINTS
    THEN SubSeq(points, Len(points) - CHART_MAX_POINTS + 1, Len(points))
    ELSE points

\* lines 148-185: _build_price_series(stocks, start_dt), keyed by stock id
BuildPriceSeries(store, stocks, start_dt) ==
    [sid \in {stocks[i].stock.id : i \in 1..Len(stocks)} |->
        CapPoints(PointsOf(SeriesReports(store, sid, start_dt)))]

(***************************************************************************)
(* State                                                                   *)
(***************************************************************************)
VARIABLES
    json_dir,         \* the documents of company_jsons/*.json, sorted by name
    db,               \* the committed rows of the four tables
    clock,            \* timezone.now()
    pc,               \* where Command.handle stands: idle, file, item, done, error
    dry_run,          \* options["dry_run"] of the run
    fp,               \* index of the file of `for fp in files`
    idx,              \* index of the item of `for item in data`
    total_reports, created_reports, skipped_reports,
    stdout,           \* lines written to self.stdout by the run
    stderr,           \* number of "Skipping bad record" lines of the run
    history,          \* the runs that have ended, oldest first
    ctx,              \* what HomeView.get_context_data returned last, << >> before
    wk                \* the import processes that run side by side, each inside
                      \* its own loop over the records and its own transaction

vars == <<json_dir, db, clock, pc, dry_run, fp, idx, total_reports, created_reports,
          skipped_reports, stdout, stderr, history, ctx, wk>>

run_vars == <<pc, dry_run, fp, idx, total_reports, created_reports, skipped_reports,
              stdout, stderr, history>>

\* a document whose top level is no list
Workers == {"w1", "w2"}

\* a process at the top of `for item in data`, no record done yet
IdleWorker ==
    [pc |-> "next", idx |-> 0, rec |-> << >>, stock |-> << >>, report |-> << >>,
     created |-> FALSE, own |-> EmptyDb, created_reports |-> 0,
     skipped_reports |-> 0, conflicts |-> {}]

NotAList == [list |-> FALSE, items |-> << >>]

ListDoc(items) == [list |-> TRUE, items |-> items]

\* the instants the clock passes through
ClockTimes == <<StrpTime("2026-03-01_12-00").t, StrpTime("2026-03-01_12-01").t>>

\* what a run leaves behind when it ends with status "done" or "error"
RunRecord(status, parsed, created, skipped, out, store) ==
    [dry_run |-> dry_run, status |-> status,
     parsed |-> parsed, created |-> created, skipped |-> skipped,
     stdout |-> out, db |-> store]

(***************************************************************************)
(* Command.handle                                                          *)
(***************************************************************************)
\* lines 81-91: list the files; CommandError when there is none
StartRun(dry) ==
    /\ pc \in {"idle", "done", "error"}
    /\ dry_run' = dry
    /\ fp' = 1
    /\ idx' = 1
    /\ total_reports' = 0
    /\ created_reports' = 0
    /\ skipped_reports' = 0
    /\ stderr' = 0
    /\ IF json_dir = << >>
       THEN /\ pc' = "error"
            /\ stdout' = << >>
            /\ history' = Append(history,
                 [RunRecord("error", 0, 0, 0, << >>, db) EXCEPT !.dry_run = dry])
       ELSE /\ pc' = "file"
            /\ stdout' = << <<"Found", Len(json_dir), dry>> >>
            /\ history' = history
    /\ UNCHANGED <<wk, ctx, json_dir, db, clock>>

\* lines 93-98: load the next file; CommandError when it holds no list
OpenFile ==
    /\ pc = "file"
    /\ fp <= Len(json_dir)
    /\ idx' = 1
    /\ stdout' = Append(stdout, <<"Processing", fp>>)
    /\ IF json_dir[fp].list
       THEN /\ pc' = "item"
            /\ history' = history
       ELSE /\ pc' = "error"
            /\ history' = Append(history,
                 RunRecord("error", total_reports, created_reports, skipped_reports,
                           stdout', db))
    /\ UNCHANGED <<wk, ctx, json_dir, db, clock, dry_run, fp, total_reports, created_reports,
                   skipped_reports, stderr>>

Count(b) == IF b THEN 1 ELSE 0

Recorded(o) ==
    /\ total_reports' = total_reports + 1
    /\ db' = o.db
    /\ created_reports' = created_reports + Count(o.kind = "created")
    /\ skipped_reports' = skipped_reports + Count(o.kind = "skipped")
    /\ stderr' = stderr + Count(o.kind = "bad")
    /\ IF o.kind = "raise"
       THEN /\ pc' = "error"
            /\ idx' = idx
            /\ history' = Append(history,
                 RunRecord("error", total_reports + 1, created_reports,
                           skipped_reports, stdout, db))
       ELSE /\ pc' = "item"
            /\ idx' = idx + 1
            /\ history' = history

\* lines 100-189: one turn of `for item in data`
ProcessRecord ==
    /\ pc = "item"
    /\ idx <= Len(json_dir[fp].items)
    /\ Recorded(RecordOutcome(db, json_dir[fp].items[idx], dry_run, clock))
    /\ UNCHANGED <<wk, ctx, json_dir, clock, dry_run, fp, stdout>>

\* the end of `for item in data`: on to the next file
EndFile ==
    /\ pc = "item"
    /\ idx > Len(json_dir[fp].items)
    /\ pc' = "file"
    /\ fp' = fp + 1
    /\ UNCHANGED <<wk, ctx, json_dir, db, clock, dry_run, idx, total_reports, created_reports,
                   skipped_reports, stdout, stderr, history>>

\* lines 191-195: the summary, after the last file
Finish ==
    /\ pc = "file"
    /\ fp > Len(json_dir)
    /\ pc' = "done"
    /\ stdout' = Append(stdout, <<"Done", total_reports, created_reports, skipped_reports>>)
    /\ history' = Append(history,
         RunRecord("done", total_reports, created_reports, skipped_reports, stdout', db))
    /\ UNCHANGED <<wk, ctx, json_dir, db, clock, dry_run, fp, idx, total_reports, created_reports,
                   skipped_reports, stderr>>

\* time passes
Tick ==
    /\ \E i \in 1..Len(ClockTimes) : ClockTimes[i] > clock
    /\ clock' = ClockTimes[CHOOSE i \in 1..Len(ClockTimes) :
                   /\ ClockTimes[i] > clock
                   /\ \A j \in 1..Len(ClockTimes) :
                        ClockTimes[j] > clock => ClockTimes[i] <= ClockTimes[j]]
    /\ UNCHANGED <<wk, ctx, json_dir, db, run_vars>>

\* HomeView.get_context_data at the instant clock, on the committed rows
HomeViewGet ==
    /\ \E tu7 \in TopUpside(db, DaysBefore(clock, 7), TOP_N_UPSIDE),
          tu30 \in TopUpside(db, DaysBefore(clock, 30), TOP_N_UPSIDE),
          mr30 \in MostReported(db, DaysBefore(clock, 30), TOP_N_MOST_REPORTED),
          mr365 \in MostReported(db, DaysBefore(clock, 365), TOP_N_MOST_REPORTED),
          rd \in RecentDowngrades(db, RECENT_DOWNGRADES),
          cs30 \in MostReported(db, DaysBefore(clock, 30), CHART_STOCKS_COUNT),
          cs365 \in MostReported(db, DaysBefore(clock, 365), CHART_STOCKS_COUNT) :
          ctx' = << [now                |-> clock,
                     db                 |-> db,
                     top_upside_7d      |-> tu7,
                     top_upside_30d     |-> tu30,
                     most_reported_30d  |-> mr30,
                     most_reported_365d |-> mr365,
                     recent_downgrades  |-> rd,
                     chart_stocks_30d   |-> cs30,
                     chart_stocks_365d  |-> cs365,
                     chart_series_30d   |->
                         BuildPriceSeries(db, cs30, DaysBefore(clock, 30)),
                     chart_series_365d  |->
                         BuildPriceSeries(db, cs365, DaysBefore(clock, 365))] >>
    /\ UNCHANGED <<wk, json_dir, db, clock, run_vars>>

(***************************************************************************)
(* The import command run over a directory of documents                    *)
(***************************************************************************)
MaxRuns == 2

MaxFiles == 2

MaxRecords == 2

\* sequences over S of length at most n
RECURSIVE SeqsUpTo(_, _)
SeqsUpTo(S, n) ==
    IF n = 0 THEN {<< >>}
    ELSE LET shorter == SeqsUpTo(S, n - 1)
         IN  shorter \cup {Append(q, x) : q \in shorter, x \in S}

ItemCop ==
    << <<"Ticker", JStr("COP US")>>, <<"Timestamp", JStr("2026-02-27_13-48")>>,
       <<"Company", JStr("ConocoPhillips")>>, <<"Currency", JStr("usd")>>,
       <<"Rating", JStr("Buy")>>, <<"Blurb", JStr("first")>>,
       <<"Price", JNum("95.5")>>, <<"Price_Objective", JStr("120")>>,
       <<"Upside", JNum("0.2565")>>,
       <<"Key_Takeaways", JList(<<JStr("a"), JStr(""), JStr("b")>>)>>,
       <<"2027_EPS", JNum("1.0")>>, <<"2027E_EPS", JNum("1.1")>> >>

\* the same stock and instant again, every other field different
ItemCopAgain ==
    << <<"Ticker", JStr(" cop  us")>>, <<"Timestamp", JStr("2026-02-27_13-48")>>,
       <<"Company", JStr("Conoco")>>, <<"Currency", JStr("EUR")>>,
       <<"Rating", JStr("Underperform")>>, <<"Blurb", JStr("second")>>,
       <<"Price", JNum("90")>>,
       <<"Key_Takeaways", JList(<<JStr("c")>>)>>,
       <<"2027_EPS", JNum("0.5")>>, <<"325_EPS", JNum("2.2")>> >>

\* no Timestamp key
ItemNoTimestamp ==
    << <<"Ticker", JStr("XOM US")>>, <<"Company", JStr("Exxon")>>,
       <<"Rating", JStr("Neutral")>>, <<"Key_Takeaways", JList(<<JStr("x")>>)>> >>

ItemBadTicker ==
    << <<"Ticker", JStr("COP")>>, <<"Timestamp", JStr("2026-02-27_13-48")>> >>

ItemBadTimestamp ==
    << <<"Ticker", JStr("COP US")>>, <<"Timestamp", JStr("2026-02-27 13:48")>> >>

ItemBadNumber ==
    << <<"Ticker", JStr("BP GB")>>, <<"Timestamp", JStr("2026-02-28_09-00")>>,
       <<"Price", JStr("abc")>> >>

Items == {ItemCop, ItemCopAgain, ItemNoTimestamp, ItemBadTicker, ItemBadTimestamp,
          ItemBadNumber}

Docs == {ListDoc(q) : q \in SeqsUpTo(Items, MaxRecords)} \cup {NotAList}

Dirs == SeqsUpTo(Docs, MaxFiles)

InitRun ==
    /\ clock = ClockTimes[1]
    /\ pc = "idle"
    /\ dry_run = FALSE
    /\ fp = 1
    /\ idx = 1
    /\ total_reports = 0
    /\ created_reports = 0
    /\ skipped_reports = 0
    /\ stdout = << >>
    /\ stderr = 0
    /\ history = << >>
    /\ ctx = << >>
    /\ wk = [w \in Workers |-> IdleWorker]

Init ==
    /\ json_dir \in Dirs
    /\ InitRun
    /\ db = EmptyDb

Start ==
    /\ Len(history) < MaxRuns
    /\ \E dry \in BOOLEAN : StartRun(dry)

Next ==
    \/ Start
    \/ OpenFile
    \/ ProcessRecord
    \/ EndFile
    \/ Finish
    \/ Tick

Spec == Init /\ [][Next]_vars

(***************************************************************************)
(* Properties of the import                                                *)
(***************************************************************************)
RECURSIVE RecordsIn(_)
\* the number of records of the list documents of a directory
RecordsIn(dir) ==
    IF dir = << >> THEN 0 ELSE Len(Head(dir).items) + RecordsIn(Tail(dir))

\* the Report, Takeaway and EPSForecast rows of a store
ReportFacts(store) ==
    [DailyReport |-> store.DailyReport, ReportKeyTakeaway |-> store.ReportKeyTakeaway,
     EPSForecast |-> store.EPSForecast]

TwoImports ==
    /\ Len(history) = 2
    /\ history[1].status = "done" /\ ~history[1].dry_run
    /\ history[2].status = "done" /\ ~history[2].dry_run

\* C1: importing the same documents twice is idempotent. When the first run
\* over the directory created a report for each of its N records (created = N,
\* skipped = 0), the second run over the same directory leaves the same
\* Report, Takeaway and EPSForecast rows and counts created = 0, skipped = N.
C1_ImportTwiceIdempotent ==
    (TwoImports /\ history[1].created = RecordsIn(json_dir) /\ history[1].skipped = 0)
        => /\ ReportFacts(history[2].db) = ReportFacts(history[1].db)
           /\ history[2].created = 0
           /\ history[2].skipped = RecordsIn(json_dir)

ChildrenOf(store, r) ==
    [takeaways |-> {t \in store.ReportKeyTakeaway : t.report = r.id},
     eps       |-> {e \in store.EPSForecast : e.report = r.id}]

UniqueKeys(store) ==
    /\ \A a, b \in store.Stock :
          (a.id = b.id \/ (a.ticker = b.ticker /\ a.region = b.region)) => a = b
    /\ \A a, b \in store.DailyReport :
          (a.id = b.id \/ (a.stock = b.stock /\ a.as_of_timestamp = b.as_of_timestamp))
              => a = b

\* C2: persisted rows are append-only. Every step of every import leaves each
\* existing Report row as it was, with the same Takeaway and EPSForecast rows,
\* and each existing Stock row as it was (company name and currency keep their
\* first-seen values); no second row is added for a (stock, as_of_timestamp) or
\* a (ticker, region) that exists.
C2_AppendOnly ==
    [][/\ \A r \in db.DailyReport :
            r \in db'.DailyReport /\ ChildrenOf(db', r) = ChildrenOf(db, r)
       /\ \A st \in db.Stock : st \in db'.Stock
       /\ UniqueKeys(db')]_vars

\* C2 witness: the record ItemCopAgain (same stock and instant as ItemCop, all
\* other fields different) has just been skipped, and the stored rows still
\* carry ItemCop's values.
C2_Witness ==
    /\ pc = "item" /\ idx > 1 /\ ~dry_run
    /\ json_dir[fp].items[idx - 1] = ItemCopAgain
    /\ skipped_reports >= 1
    /\ \E r \in db.DailyReport :
          /\ r.blurb = "first" /\ r.rating = "BUY"
          /\ {t.text : t \in ChildrenOf(db, r).takeaways} = {"a", "b"}
    /\ \E st \in db.Stock : st.ticker = "COP" /\ st.company_name = "ConocoPhillips"
                              /\ st.currency_code = "USD"

\* C4: a record-level failure never aborts the batch. A run ends in an error
\* only for a document-level reason: no document found, or a document whose top
\* level is no list; never while a record is being processed.
C4_RecordFailureNeverAborts ==
    pc = "error" => (json_dir = << >> \/ ~json_dir[fp].list)

\* C5: the Takeaways of every Report carry the contiguous orders 0 .. k-1,
\* k the number of kept (non-empty) entries.
C5_TakeawayOrdersContiguous ==
    \A r \in db.DailyReport :
        {t.order : t \in ChildrenOf(db, r).takeaways}
            = 0..(Cardinality(ChildrenOf(db, r).takeaways) - 1)

(***************************************************************************)
(* The EPS resolver on one record: every order of up to MaxEpsKeys EPS keys *)
(***************************************************************************)
MaxEpsKeys == 3

EpsKeys == {"2027E_EPS", "2027_EPS", "327_EPS", "326_EPS", "2027E_EPS\n"}

\* the number a key carries when its value is one
EpsNumber(key) ==
    CASE key = "2027E_EPS" -> JNum("1.1")
      [] key = "2027_EPS" -> JNum("1.0")
      [] key = "327_EPS" -> JNum("0.9")
      [] key = "326_EPS" -> JStr("2.2")
      [] OTHER -> JNum("7")

\* a number, an empty value, or text that is no number
EpsValues(key) == {EpsNumber(key), JStr(""), None, JStr("abc")}

EpsEntries ==
    {q \in SeqsUpTo({<<k, v>> : k \in EpsKeys, v \in UNION {EpsValues(k) : k \in EpsKeys}},
                    MaxEpsKeys) :
        /\ \A i \in 1..Len(q) : q[i][2] \in EpsValues(q[i][1])
        /\ \A i, j \in 1..Len(q) : q[i][1] = q[j][1] => i = j}

EpsItem(entries) ==
    << <<"Ticker", JStr("COP US")>>, <<"Timestamp", JStr("2026-02-27_13-48")>> >> \o entries

InitEps ==
    /\ json_dir \in {<<ListDoc(<<EpsItem(q)>>)>> : q \in EpsEntries}
    /\ InitRun
    /\ db = EmptyDb

StartOnce ==
    /\ history = << >>
    /\ pc = "idle"
    /\ StartRun(FALSE)

NextEps ==
    \/ StartOnce
    \/ OpenFile
    \/ ProcessRecord
    \/ EndFile
    \/ Finish

SpecEps == InitEps /\ [][NextEps]_vars

\* the entries of a record that carry a non-empty value for the year y
EpsCandidates(item, y) ==
    {i \in 1..Len(item) :
        extract_eps_year(item[i][1]) = y /\ item[i][2] # JStr("") /\ item[i][2] # None}

\* those of them whose key has the highest priority
EpsBest(item, y) ==
    {i \in EpsCandidates(item, y) :
        \A j \in EpsCandidates(item, y) :
            eps_priority(item[j][1]) <= eps_priority(item[i][1])}

EpsYears(item) ==
    {extract_eps_year(item[i][1]) : i \in 1..Len(item)} \ {NoYear}

\* the record of the directory has been imported and its report created
EpsImported == pc = "item" /\ idx = 2 /\ created_reports = 1

\* C6: for a record and an order of its keys, the resolver yields at most one
\* value per forecast year, the value of a key of the highest priority among
\* the keys with a non-empty value that map to the year (YYYYE_EPS 3, YYYY_EPS
\* 2, CCC_EPS 1 with year = code + 1700), the pairs ascending by year; these
\* are the EPSForecast rows of the created report. 2027E_EPS=1.1, 2027_EPS=1.0,
\* 327_EPS=0.9 resolve 2027 to 1.1 in every order, and 325_EPS alone to 2025.
C6_EpsPriority ==
    /\ EpsImported =>
         LET item == json_dir[1].items[1]
             rows == EpsRows(item).rows
         IN  /\ \A i, j \in 1..Len(rows) : i < j => rows[i][1] < rows[j][1]
             /\ {rows[i][1] : i \in 1..Len(rows)}
                  = {y \in EpsYears(item) : EpsCandidates(item, y) # {}}
             /\ \A i \in 1..Len(rows) :
                  \E b \in EpsBest(item, rows[i][1]) : rows[i][2] = to_decimal(item[b][2]).v
             /\ db.EPSForecast
                  = {[report |-> 1, year |-> rows[i][1], eps |-> rows[i][2]] :
                       i \in 1..Len(rows)}
             /\ ({"2027E_EPS", "2027_EPS", "327_EPS"} \subseteq ItemKeys(item)
                   /\ \A i \in 1..Len(item) : item[i][2].t = "num")
                  => db.EPSForecast = {[report |-> 1, year |-> 2027, eps |-> Dec(1100000)]}
    /\ extract_eps_year("325_EPS") = 2025 /\ eps_priority("325_EPS") = 1
    /\ eps_priority("2027E_EPS") = 3 /\ eps_priority("2027_EPS") = 2

\* C6 witness: the three keys of 2027, lowest priority first and highest
\* priority in the middle, resolved to the value of 2027E_EPS.
C6_Witness ==
    /\ EpsImported
    /\ json_dir[1].items[1]
         = EpsItem(<< <<"327_EPS", JNum("0.9")>>, <<"2027E_EPS", JNum("1.1")>>,
                      <<"2027_EPS", JNum("1.0")>> >>)
    /\ db.EPSForecast = {[report |-> 1, year |-> 2027, eps |-> Dec(1100000)]}

(***************************************************************************)
(* The analytics over a store that earlier imports have filled             *)
(***************************************************************************)
\* the store after a run of the command over one document, into `store`: the
\* records in order, up to the first one that raises
RECURSIVE Imported(_, _, _)
ImportedNext(o, items, now) ==
    IF o.kind = "raise" THEN o.db ELSE Imported(o.db, items, now)

Imported(store, items, now) ==
    IF items = << >> THEN store
    ELSE ImportedNext(RecordOutcome(store, Head(items), FALSE, now), Tail(items), now)

BgTickers == <<"AAA US", "BBB US", "CCC US", "DDD US", "EEE US", "FFF US",
               "GGG US", "HHH US", "III US", "JJJ US", "KKK US">>

\* eleven stocks rated Buy on 2026-02-27, upsides 0.01 .. 0.11
BgBuy(i) ==
    << <<"Ticker", JStr(BgTickers[i])>>,
       <<"Timestamp", JStr("2026-02-27_10-" \o TwoDigits(i))>>,
       <<"Rating", JStr("Buy")>>, <<"Price", JNum("100")>>,
       <<"Upside", JNum("0." \o TwoDigits(i))>> >>

\* a later report of the i-th stock rated Underperform, no upside
BgUnderperform(i) ==
    << <<"Ticker", JStr(BgTickers[i])>>,
       <<"Timestamp", JStr("2026-02-28_10-" \o TwoDigits(i))>>,
       <<"Rating", JStr("underperform ")>>, <<"Price_Objective", JStr("80")>> >>

BgDocument ==
    [i \in 1..Len(BgTickers) |-> BgBuy(i)] \o [i \in 1..6 |-> BgUnderperform(i)]

SeedDb == Imported(EmptyDb, BgDocument, StrpTime("2026-02-28_12-00").t)

\* dated exactly seven days before the first instant of the clock
ViewAtWindowStart ==
    << <<"Ticker", JStr("ABC US")>>, <<"Timestamp", JStr("2026-02-22_12-00")>>,
       <<"Rating", JStr("Neutral")>>, <<"Price", JNum("50")>>, <<"Upside", JNum("0.9")>> >>

\* dated after the first instant of the clock
ViewFuture ==
    << <<"Ticker", JStr("abc us")>>, <<"Timestamp", JStr("2026-03-01_12-01")>>,
       <<"Rating", JStr("Underperform")>>, <<"Price", JNum("45")>>,
       <<"Upside", JNum("0.95")>> >>

\* the same ticker in another region
ViewTwin ==
    << <<"Ticker", JStr("ABC CA")>>, <<"Timestamp", JStr("2026-02-27_09-00")>>,
       <<"Rating", JStr("Buy")>>, <<"Upside", JNum("0.8")>> >>

\* an older report of FFF US, filed late, between its two reports
ViewBackfill ==
    << <<"Ticker", JStr("FFF US")>>, <<"Timestamp", JStr("2026-02-27_23-00")>>,
       <<"Rating", JStr("UNDERPERFORM")>> >>

\* dated before every window
ViewOld ==
    << <<"Ticker", JStr("ABC US")>>, <<"Timestamp", JStr("2025-01-01_00-00")>>,
       <<"Rating", JStr("Buy")>>, <<"Upside", JNum("0.99")>> >>

ViewItems == {ViewAtWindowStart, ViewFuture, ViewTwin, ViewBackfill, ViewOld}

InitViews ==
    /\ json_dir \in {<<ListDoc(q)>> : q \in SeqsUpTo(ViewItems, MaxRecords)}
    /\ InitRun
    /\ db = SeedDb

NextViews ==
    \/ StartOnce
    \/ OpenFile
    \/ ProcessRecord
    \/ EndFile
    \/ Finish
    \/ Tick
    \/ HomeViewGet

SpecViews == InitViews /\ [][NextViews]_vars

(***************************************************************************)
(* What the rendered page must show, stated over the rows of the store     *)
(***************************************************************************)
Rendered == ctx # << >>

View == ctx[1]

Smaller(a, b) == IF a < b THEN a ELSE b

\* the reports of stock sid dated within [lo, hi]
ReportsWithin(store, sid, lo, hi) ==
    {r \in store.DailyReport :
        r.stock = sid /\ lo <= r.as_of_timestamp /\ r.as_of_timestamp <= hi}

\* the non-null upsides of stock sid within [lo, hi]
UpsidesWithin(store, sid, lo, hi) ==
    {r.upside.v : r \in {x \in ReportsWithin(store, sid, lo, hi) : x.upside.t = "dec"}}

Highest(S) == CHOOSE m \in S : \A o \in S : o <= m

UpsideRanking(rows, store, lo, hi, limit) ==
    LET qualifying == {st \in store.Stock : UpsidesWithin(store, st.id, lo, hi) # {}}
        Metric(st) == Highest(UpsidesWithin(store, st.id, lo, hi))
        returned == {rows[i].stock : i \in DOMAIN rows}
    IN  /\ Len(rows) = Smaller(limit, Cardinality(qualifying))
        /\ Cardinality(returned) = Len(rows)
        /\ \A i \in DOMAIN rows :
              /\ rows[i].stock \in qualifying
              /\ rows[i].max_upside = Dec(Metric(rows[i].stock))
        /\ \A i, j \in DOMAIN rows :
              i < j => rows[i].max_upside.v >= rows[j].max_upside.v
        /\ \A st \in qualifying \ returned : \A i \in DOMAIN rows :
              Metric(st) <= rows[i].max_upside.v

\* C7: each top-upside ranking (7 and 30 days, limit 10) lists the first
\* `limit` stocks by descending maximum upside, the maximum taken over the
\* stock's reports with a non-null upside dated within [now - window, now];
\* stocks with no such report are left out.
C7_TopUpsideWithinWindow ==
    Rendered =>
        /\ UpsideRanking(View.top_upside_7d, View.db,
                         View.now - 7 * MINUTES_PER_DAY, View.now, TOP_N_UPSIDE)
        /\ UpsideRanking(View.top_upside_30d, View.db,
                         View.now - 30 * MINUTES_PER_DAY, View.now, TOP_N_UPSIDE)

\* the reports of r's stock dated strictly before r
Preceding(store, r) ==
    {p \in store.DailyReport : p.stock = r.stock /\ p.as_of_timestamp < r.as_of_timestamp}

\* an UNDERPERFORM report whose immediately preceding report is BUY or NEUTRAL
IsDowngrade(store, r) ==
    /\ r.rating = "UNDERPERFORM"
    /\ \E p \in Preceding(store, r) :
          /\ \A q \in Preceding(store, r) : q.as_of_timestamp <= p.as_of_timestamp
          /\ p.rating \in {"BUY", "NEUTRAL"}

DowngradeEvents(store) == {r \in store.DailyReport : IsDowngrade(store, r)}

\* C8: after any sequence of imports the downgrade list is exactly the (up to
\* five) most recent reports rated UNDERPERFORM whose immediately preceding
\* report of the same stock is rated BUY or NEUTRAL, latest first; a report
\* with no preceding report, or preceded by another rating, is never listed.
C8_DowngradeEvents ==
    Rendered =>
        LET rows == View.recent_downgrades
            events == DowngradeEvents(View.db)
            returned == {rows[i].report : i \in DOMAIN rows}
        IN  /\ Len(rows) = Smaller(RECENT_DOWNGRADES, Cardinality(events))
            /\ Cardinality(returned) = Len(rows)
            /\ returned \subseteq events
            /\ \A i, j \in DOMAIN rows :
                  i < j => rows[i].report.as_of_timestamp >= rows[j].report.as_of_timestamp
            /\ \A r \in events \ returned : \A i \in DOMAIN rows :
                  r.as_of_timestamp <= rows[i].report.as_of_timestamp

\* a page rendered with more events than the list holds, after a backfill left
\* an UNDERPERFORM report preceded by another UNDERPERFORM report
C8_Witness ==
    /\ Rendered
    /\ Cardinality(DowngradeEvents(View.db)) > RECENT_DOWNGRADES
    /\ Len(View.recent_downgrades) = RECENT_DOWNGRADES
    /\ \E r \in View.db.DailyReport :
          /\ r.rating = "UNDERPERFORM"
          /\ Preceding(View.db, r) # {}
          /\ r \notin DowngradeEvents(View.db)
          /\ \E p \in Preceding(View.db, r) : p.rating = "BUY"

\* the reports of stock sid within [lo, hi] that carry a price or an objective
PricedWithin(store, sid, lo, hi) ==
    {r \in ReportsWithin(store, sid, lo, hi) :
        r.price.t = "dec" \/ r.price_objective.t = "dec"}

\* the n latest reports of a set
LatestOf(reports, n) ==
    {r \in reports :
        Cardinality({q \in reports : q.as_of_timestamp > r.as_of_timestamp}) < n}

\* the i-th report of a set in ascending time
Nth(reports, i) ==
    CHOOSE r \in reports :
        Cardinality({q \in reports : q.as_of_timestamp < r.as_of_timestamp}) = i - 1

PriceSeries(series, stocks, store, lo, hi) ==
    /\ DOMAIN series = {stocks[k].stock.id : k \in DOMAIN stocks}
    /\ \A sid \in DOMAIN series :
          LET kept == LatestOf(PricedWithin(store, sid, lo, hi), CHART_MAX_POINTS)
          IN  /\ Len(series[sid]) = Cardinality(kept)
              /\ Len(series[sid]) <= CHART_MAX_POINTS
              /\ \A i \in DOMAIN series[sid] :
                    /\ series[sid][i].t = IsoFormat(Nth(kept, i).as_of_timestamp)
                    /\ (series[sid][i].price = None) = (Nth(kept, i).price = None)
                    /\ (series[sid][i].po = None) = (Nth(kept, i).price_objective = None)

\* C9: for every charted stock the series holds only reports of that stock in
\* the window [now - window, now] with a price or a price objective, in
\* strictly ascending time, the last 60 of them when more qualify.
C9_PriceSeriesInWindow ==
    Rendered =>
        /\ PriceSeries(View.chart_series_30d, View.chart_stocks_30d, View.db,
                       View.now - 30 * MINUTES_PER_DAY, View.now)
        /\ PriceSeries(View.chart_series_365d, View.chart_stocks_365d, View.db,
                       View.now - 365 * MINUTES_PER_DAY, View.now)

CoverageRanking(rows, store, lo, hi, limit) ==
    LET Covered(st) == Cardinality(ReportsWithin(store, st.id, lo, hi))
        qualifying == {st \in store.Stock : Covered(st) > 0}
        returned == {rows[i].stock : i \in DOMAIN rows}
        Ahead(n, t, m, u) == n > m \/ (n = m /\ StrLess(t, u))
    IN  /\ Len(rows) = Smaller(limit, Cardinality(qualifying))
        /\ Cardinality(returned) = Len(rows)
        /\ \A i \in DOMAIN rows :
              /\ rows[i].stock \in qualifying
              /\ rows[i].report_count = Covered(rows[i].stock)
        /\ \A i, j \in DOMAIN rows :
              i < j => Ahead(rows[i].report_count, rows[i].stock.ticker,
                             rows[j].report_count, rows[j].stock.ticker)
        /\ \A st \in qualifying \ returned : \A i \in DOMAIN rows :
              Ahead(rows[i].report_count, rows[i].stock.ticker, Covered(st), st.ticker)

\* C10: each most-covered ranking (30 and 365 days, limit 10) lists the first
\* `limit` stocks by descending number of reports dated within
\* [now - window, now], ties broken by ascending ticker so that the order is
\* determined by the stored rows; stocks with no such report are left out.
C10_MostCoveredDeterministic ==
    Rendered =>
        /\ CoverageRanking(View.most_reported_30d, View.db,
                           View.now - 30 * MINUTES_PER_DAY, View.now,
                           TOP_N_MOST_REPORTED)
        /\ CoverageRanking(View.most_reported_365d, View.db,
                           View.now - 365 * MINUTES_PER_DAY, View.now,
                           TOP_N_MOST_REPORTED)

(***************************************************************************)
(* Two import processes over the same document, side by side.  Each record *)
(* is written in one transaction (lines 152-189); get_or_create is a get,  *)
(* then, on a miss, an insert that the unique constraint may refuse.       *)
(***************************************************************************)
\* lines 103-150: what the record holds, read before the transaction
ParsedRecord(item, now) ==
    [tr             |-> parse_ticker_region(ItemGet(item, "Ticker", JStr(""))),
     ts             |-> parse_timestamp(ItemGet(item, "Timestamp", None), now),
     rd             |-> ReportDefaults(item),
     eps            |-> EpsRows(item),
     key_takeaways  |-> KeyTakeaways(item),
     stock_defaults |-> StockDefaults(item)]

Begun(me, rec) ==
    IF ~rec.tr.ok \/ ~rec.ts.ok THEN [me EXCEPT !.idx = @ + 1]
    ELSE IF ~rec.rd.ok \/ ~rec.eps.ok THEN [me EXCEPT !.pc = "failed"]
    ELSE [me EXCEPT !.pc = "stock_get", !.rec = rec]

\* the next record of the document: skipped when malformed, else the
\* transaction opens
Begin(w) ==
    /\ json_dir # << >>
    /\ wk[w].pc = "next"
    /\ wk[w].idx < Len(json_dir[1].items)
    /\ wk' = [wk EXCEPT ![w] = Begun(@, ParsedRecord(json_dir[1].items[@.idx + 1], clock))]
    /\ UNCHANGED <<ctx, json_dir, db, clock, run_vars>>

\* the rows of a table a process reads: the committed ones and its own
Visible(w, table) == db[table] \cup wk[w].own[table]

\* the rows of a table the other processes have inserted and not committed
Uncommitted(w, table) == UNION {wk[o].own[table] : o \in Workers \ {w}}

\* the rows of a table that have taken an id
Numbered(table) == db[table] \cup UNION {wk[o].own[table] : o \in Workers}

\* the insert of get_or_create hit the unique constraint and the error
\* reached the caller
InsertOrRaise(taken, row) ==
    [obj |-> row, created |-> taken = {}, error |-> taken # {}]

\* get_or_create after the miss: create the row; on IntegrityError get the row
\* that holds the key and return it with created = False
InsertOrGet(taken, row) ==
    IF taken # {} THEN [obj |-> CHOOSE o \in taken : TRUE, created |-> FALSE, error |-> FALSE]
    ELSE [obj |-> row, created |-> TRUE, error |-> FALSE]

StockMissed(me, found) ==
    IF found # {} THEN [me EXCEPT !.stock = CHOOSE o \in found : TRUE, !.pc = "report_get"]
    ELSE [me EXCEPT !.pc = "stock_insert"]

\* lines 153-160, the get of Stock.objects.get_or_create
StockGet(w) ==
    /\ wk[w].pc = "stock_get"
    /\ wk' = [wk EXCEPT ![w] =
                StockMissed(@, StockLookup(Visible(w, "Stock"), @.rec.tr.ticker,
                                           @.rec.tr.region))]
    /\ UNCHANGED <<ctx, json_dir, db, clock, run_vars>>

StockInserted(me, r) ==
    IF r.error THEN [me EXCEPT !.pc = "failed", !.own = EmptyDb]
    ELSE [me EXCEPT !.stock = r.obj,
                    !.own.Stock = IF r.created THEN @ \cup {r.obj} ELSE @,
                    !.conflicts = IF r.created THEN @ ELSE @ \cup {"Stock"},
                    !.pc = "report_get"]

\* another transaction holds the key of the row w is to insert, uncommitted
StockHeld(w) ==
    StockLookup(Uncommitted(w, "Stock"), wk[w].rec.tr.ticker, wk[w].rec.tr.region) # {}

\* lines 153-160, the create of Stock.objects.get_or_create; it waits while
\* another transaction holds the key uncommitted
StockInsert(w) ==
    /\ wk[w].pc = "stock_insert"
    /\ ~StockHeld(w)
    /\ wk' = [wk EXCEPT ![w] =
                StockInserted(@,
                    InsertOrGet(StockLookup(db.Stock, @.rec.tr.ticker, @.rec.tr.region),
                                StockRow(NextId(Numbered("Stock")), @.rec.tr.ticker,
                                         @.rec.tr.region, @.rec.stock_defaults)))]
    /\ UNCHANGED <<ctx, json_dir, db, clock, run_vars>>

ReportMissed(me, found) ==
    IF found # {}
    THEN [me EXCEPT !.report = CHOOSE o \in found : TRUE, !.created = FALSE,
                    !.pc = "children"]
    ELSE [me EXCEPT !.pc = "report_insert"]

\* lines 163-167, the get of DailyReport.objects.get_or_create
ReportGet(w) ==
    /\ wk[w].pc = "report_get"
    /\ wk' = [wk EXCEPT ![w] =
                ReportMissed(@, ReportLookup(Visible(w, "DailyReport"), @.stock, @.rec.ts.t))]
    /\ UNCHANGED <<ctx, json_dir, db, clock, run_vars>>

ReportInserted(me, r) ==
    IF r.error THEN [me EXCEPT !.pc = "failed", !.own = EmptyDb]
    ELSE [me EXCEPT !.report = r.obj,
                    !.created = r.created,
                    !.own.DailyReport = IF r.created THEN @ \cup {r.obj} ELSE @,
                    !.conflicts = IF r.created THEN @ ELSE @ \cup {"DailyReport"},
                    !.pc = "children"]

ReportHeld(w) ==
    ReportLookup(Uncommitted(w, "DailyReport"), wk[w].stock, wk[w].rec.ts.t) # {}

\* lines 163-167, the create of DailyReport.objects.get_or_create
ReportInsert(w) ==
    /\ wk[w].pc = "report_insert"
    /\ ~ReportHeld(w)
    /\ wk' = [wk EXCEPT ![w] =
                ReportInserted(@,
                    InsertOrGet(ReportLookup(db.DailyReport, @.stock, @.rec.ts.t),
                                ReportRow(NextId(Numbered("DailyReport")), @.stock,
                                          @.rec.ts.t, @.rec.rd.fields, clock)))]
    /\ UNCHANGED <<ctx, json_dir, db, clock, run_vars>>

Counted(me) ==
    IF me.created
    THEN [me EXCEPT !.created_reports = @ + 1,
                    !.own.ReportKeyTakeaway =
                        @ \cup TakeawayRows(me.report, me.rec.key_takeaways),
                    !.own.EPSForecast = @ \cup EpsForecastRows(me.report, me.rec.eps.rows),
                    !.pc = "commit"]
    ELSE [me EXCEPT !.skipped_reports = @ + 1, !.pc = "commit"]

\* lines 169-189: the children of a report this process created
BulkCreate(w) ==
    /\ wk[w].pc = "children"
    /\ wk' = [wk EXCEPT ![w] = Counted(@)]
    /\ UNCHANGED <<ctx, json_dir, db, clock, run_vars>>

\* the `with transaction.atomic()` block ends: its rows become visible to all
Commit(w) ==
    /\ wk[w].pc = "commit"
    /\ db' = [table \in DOMAIN db |-> db[table] \cup wk[w].own[table]]
    /\ wk' = [wk EXCEPT ![w] = [@ EXCEPT !.own = EmptyDb, !.idx = @ + 1, !.pc = "next"]]
    /\ UNCHANGED <<ctx, json_dir, clock, run_vars>>

\* the same stock as ItemCop, a day later
ItemCopLater ==
    << <<"Ticker", JStr("COP US")>>, <<"Timestamp", JStr("2026-02-28_13-48")>>,
       <<"Rating", JStr("Neutral")>>, <<"Key_Takeaways", JList(<<JStr("d"), JStr("e")>>)>>,
       <<"2028_EPS", JNum("3")>> >>

RaceItems == {ItemCop, ItemCopAgain, ItemCopLater, ItemBadTicker}

InitRace ==
    /\ json_dir \in {<<ListDoc(q)>> : q \in SeqsUpTo(RaceItems, MaxRecords)}
    /\ InitRun
    /\ db = EmptyDb

NextRace ==
    \E w \in Workers :
        \/ Begin(w)
        \/ StockGet(w)
        \/ StockInsert(w)
        \/ ReportGet(w)
        \/ ReportInsert(w)
        \/ BulkCreate(w)
        \/ Commit(w)

SpecRace == InitRace /\ [][NextRace]_vars

\* w has work left and waits for no other process
CanStep(w) ==
    /\ wk[w].pc = "next" => wk[w].idx < Len(json_dir[1].items)
    /\ wk[w].pc = "stock_insert" => ~StockHeld(w)
    /\ wk[w].pc = "report_insert" => ~ReportHeld(w)

\* every process has gone through the document
AllDone == \A w \in Workers : wk[w].pc = "next" /\ wk[w].idx = Len(json_dir[1].items)

\* what a store holds, whatever ids its rows took
KeyedFacts(store) ==
    {[stocks    |-> {[st EXCEPT !.id = 0] : st \in {x \in store.Stock : x.id = r.stock}},
      report    |-> [r EXCEPT !.id = 0, !.stock = 0],
      takeaways |-> {<<t.order, t.text>> : t \in ChildrenOf(store, r).takeaways},
      eps       |-> {<<e.year, e.eps>> : e \in ChildrenOf(store, r).eps}] :
        r \in store.DailyReport}

DbBeforeRun == IF history = << >> THEN EmptyDb ELSE history[Len(history)].db

\* the records the running import has read: those of the files it is through
\* and those of the file it is in
ReadSoFar ==
    RecordsIn(SubSeq(json_dir, 1, fp - 1)) + (IF pc = "item" THEN idx - 1 ELSE 0)

\* C11: a dry run writes nothing. While it runs and when it has ended, the
\* Stock, Report, Takeaway and EPSForecast rows are those the store held when
\* it began and created = skipped = 0, and every record read counts toward
\* parsed: a dry run that reaches its end has parsed every record of every
\* document.
C11_DryRunWritesNothing ==
    /\ (dry_run /\ pc \in {"file", "item"}) =>
          /\ db = DbBeforeRun
          /\ created_reports = 0 /\ skipped_reports = 0
          /\ total_reports = ReadSoFar
    /\ \A i \in DOMAIN history :
          history[i].dry_run =>
              /\ history[i].db = (IF i = 1 THEN EmptyDb ELSE history[i - 1].db)
              /\ history[i].created = 0 /\ history[i].skipped = 0
              /\ history[i].status = "done" => history[i].parsed = RecordsIn(json_dir)

\* a run that created a report, then, a minute later, a dry run to its end over
\* the same documents, a record with no Timestamp among them (which a run
\* that writes would store once more)
C11_Witness ==
    /\ Len(history) = 2 /\ pc = "done" /\ clock = ClockTimes[2]
    /\ ~history[1].dry_run /\ history[1].status = "done" /\ history[1].created >= 1
    /\ history[2].dry_run /\ history[2].status = "done" /\ history[2].parsed >= 2
    /\ history[2].db = history[1].db
    /\ \E i \in DOMAIN json_dir[1].items : json_dir[1].items[i] = ItemNoTimestamp
    /\ Cardinality(db.DailyReport) = history[1].created

(***************************************************************************)
(* Stock identity                                                          *)
(***************************************************************************)
LowerCase == {Ch(LowerLetters, j) : j \in 1..Len(LowerLetters)}

\* no whitespace at either end and no lower-case letter
TrimmedUpper(s) ==
    /\ ~IsSpace(Ch(s, 1)) /\ ~IsSpace(Ch(s, Len(s)))
    /\ \A i \in 1..Len(s) : Ch(s, i) \notin LowerCase

\* the same text but for letter case and surrounding whitespace
SameIdentifier(a, b) == StrUpper(Strip(a)) = StrUpper(Strip(b))

\* the Stocks a parsed Ticker value stands for
StocksFor(tr) ==
    {st \in db.Stock :
        SameIdentifier(st.ticker, tr.ticker) /\ SameIdentifier(st.region, tr.region)}

\* the parsed Ticker values of the records that a writing run has been through
\* in the file it is in and that it took to the store: those whose ticker and
\* timestamp parsed (a record that raised later has ended the run)
TickersTaken ==
    IF pc = "item" /\ ~dry_run
    THEN {parse_ticker_region(ItemGet(json_dir[fp].items[j], "Ticker", JStr(""))) :
            j \in {k \in 1..(idx - 1) :
                parse_timestamp(ItemGet(json_dir[fp].items[k], "Timestamp", None), clock).ok}}
    ELSE {}

\* C12: Stock identity is normalised before storage. Every stored Stock has a
\* trimmed, upper-case ticker and region; no two Stocks have tickers and
\* regions that differ only in letter case or surrounding whitespace (a second
\* insert of a stored key is what would raise the uniqueness error); and every
\* record taken to the store has exactly one Stock, whatever the case and
\* spacing of its Ticker.
C12_StockIdentityNormalized ==
    /\ \A st \in db.Stock : TrimmedUpper(st.ticker) /\ TrimmedUpper(st.region)
    /\ \A a, b \in db.Stock :
          (a # b) => ~(SameIdentifier(a.ticker, b.ticker) /\ SameIdentifier(a.region, b.region))
    /\ \A tr \in TickersTaken : tr.ok => Cardinality(StocksFor(tr)) = 1

\* " cop  us" was imported first, then "COP US": one Stock, COP / US, with the
\* company name of the first record
C12_Witness ==
    /\ pc = "item" /\ ~dry_run /\ fp = 1 /\ idx = 3
    /\ json_dir[1].items = <<ItemCopAgain, ItemCop>>
    /\ created_reports = 1 /\ skipped_reports = 1
    /\ Cardinality(db.Stock) = 1
    /\ \A st \in db.Stock :
          st.ticker = "COP" /\ st.region = "US" /\ st.company_name = "Conoco"

(***************************************************************************)
(* The summary                                                             *)
(***************************************************************************)
\* the run wrote a "Processing" line: it started on at least one document
StartedDocument(run) ==
    \E k \in DOMAIN run.stdout : run.stdout[k][1] = "Processing"

\* the run wrote the "Done" line with its parsed / created / skipped counts
WroteSummary(run) ==
    \E k \in DOMAIN run.stdout :
        /\ run.stdout[k][1] = "Done"
        /\ run.stdout[k][2] = run.parsed
        /\ run.stdout[k][3] = run.created
        /\ run.stdout[k][4] = run.skipped

\* C13: a summary of the parsed / created / skipped counts is always produced
\* for attempted documents. Every run that has ended after it started on at
\* least one document, a run that met a document whose top level is not a list
\* included, wrote the summary line with the counts of the records it processed.
C13_SummaryAlwaysProduced ==
    \A i \in DOMAIN history :
        StartedDocument(history[i]) => WroteSummary(history[i])

=============================================================================
